---- MODULE Spec2Model ----
(***************************************************************************)
(* composable_query_builder: the builder state, its configuration calls,   *)
(* the recursive assembly `parts` and the rendering `into_builder`.        *)
(*                                                                         *)
(* A Rust String is a sequence of atoms.  The atom "?" is the marker       *)
(* character; every other atom stands for a run of characters without a    *)
(* marker.  The literal " and " is always the three atoms " ", "and", " "  *)
(* so that text built by one push_str and by three compares equal.         *)
(* Option<T> is <<>> (None) or <<x>> (Some(x)).                            *)
(***************************************************************************)
EXTENDS Integers, Sequences, FiniteSets, TLC

VARIABLES qb, pool, budget, pc, last, pushes, log, cb_calls, out, query

vars == <<qb, pool, budget, pc, last, pushes, log, cb_calls, out, query>>

(***************************************************************************)
(* Bounds                                                                  *)
(***************************************************************************)
MaxCalls == 3
MaxWhereCalls == 5
MaxTableCalls == 7
MaxLoggedCalls == 3

(***************************************************************************)
(* Strings                                                                 *)
(***************************************************************************)
Q == "?"

Max(a, b) == IF a >= b THEN a ELSE b

RECURSIVE Flatten(_)
Flatten(ss) == IF ss = <<>> THEN <<>> ELSE Head(ss) \o Flatten(Tail(ss))

\* [String]::join(sep)
RECURSIVE join_with(_, _)
join_with(ss, sep) ==
    IF ss = <<>> THEN <<>>
    ELSE IF Len(ss) = 1 THEN Head(ss)
    ELSE Head(ss) \o sep \o join_with(Tail(ss), sep)

\* str::split('?'): the segments between markers; a string with N markers
\* has N + 1 segments, the empty string has one (empty) segment.
RECURSIVE split(_)
split(s) ==
    IF \A i \in 1..Len(s) : s[i] # Q THEN <<s>>
    ELSE LET i == CHOOSE j \in 1..Len(s) :
                      s[j] = Q /\ \A k \in 1..(j - 1) : s[k] # Q
         IN <<SubSeq(s, 1, i - 1)>> \o split(SubSeq(s, i + 1, Len(s)))

Markers(s) == Cardinality({i \in 1..Len(s) : s[i] = Q})

(***************************************************************************)
(* SQLValue, OrderDir, BoolKind                                            *)
(***************************************************************************)
I32(n) == [tag |-> "I32", v |-> n]
U64(n) == [tag |-> "U64", v |-> n]

OrderDir_as_str(dir) == IF dir = "Asc" THEN "asc" ELSE "desc"

BoolKind_as_str(kind) == IF kind = "And" THEN "and" ELSE "or"

(***************************************************************************)
(* WhereClauses                                                            *)
(***************************************************************************)
WhereClauses_new == [clauses |-> <<>>, multi_clauses |-> <<>>]

push(self, clause, value, kind) ==
    [self EXCEPT !.clauses = Append(@, <<clause, value, kind>>)]

push_multi(self, clause, value) ==
    [self EXCEPT !.multi_clauses = Append(@, <<clause, value>>)]

\* as clauses_str, writing between clause i and clause i + 1 the kind of
\* clause i + 1
RECURSIVE clauses_str_kind_of_next(_, _)
clauses_str_kind_of_next(clauses, i) ==
    IF i > Len(clauses) THEN <<>>
    ELSE clauses[i][1]
         \o (IF i # Len(clauses)
             THEN <<" ", BoolKind_as_str(clauses[i + 1][3]), " ">>
             ELSE <<>>)
         \o clauses_str_kind_of_next(clauses, i + 1)

\* first loop of parts: the templates of the single-value clauses, clause i
\* followed by its own kind unless it is the last one
RECURSIVE clauses_str(_, _)
clauses_str(clauses, i) ==
    IF i > Len(clauses) THEN <<>>
    ELSE clauses[i][1]
         \o (IF i # Len(clauses)
             THEN <<" ", BoolKind_as_str(clauses[i][3]), " ">>
             ELSE <<>>)
         \o clauses_str(clauses, i + 1)

\* second loop of parts: the templates of the multi-value clauses
RECURSIVE multi_clauses_str(_, _)
multi_clauses_str(multi, i) ==
    IF i > Len(multi) THEN <<>>
    ELSE multi[i][1]
         \o (IF i # Len(multi) THEN <<" ", "and", " ">> ELSE <<>>)
         \o multi_clauses_str(multi, i + 1)

\* as where_values, the multis' values first
where_values_multi_first(self) ==
    Flatten([i \in 1..Len(self.multi_clauses) |-> self.multi_clauses[i][2]])
    \o [i \in 1..Len(self.clauses) |-> self.clauses[i][2]]

\* the value list: the singles' values chained with the flattened multis'
where_values(self) ==
    [i \in 1..Len(self.clauses) |-> self.clauses[i][2]]
    \o Flatten([i \in 1..Len(self.multi_clauses) |-> self.multi_clauses[i][2]])

WhereClauses_parts(self) ==
    IF self.clauses = <<>> /\ self.multi_clauses = <<>>
    THEN <<<<>>, <<>>>>
    ELSE << <<" where ">>
              \o clauses_str(self.clauses, 1)
              \o multi_clauses_str(self.multi_clauses, 1),
            where_values(self) >>

(***************************************************************************)
(* ComposableQueryBuilder: configuration                                   *)
(***************************************************************************)
Simple(s) == [kind |-> "Simple", s |-> s, parts |-> <<>>]
Complex(s, ps) == [kind |-> "Complex", s |-> s, parts |-> ps]

new ==
    [table |-> Simple(<<>>), select |-> <<>>, group_by |-> <<>>,
     joins |-> <<>>, where_clause |-> WhereClauses_new,
     limit |-> <<>>, offset |-> <<>>, order_by |-> <<>>]

table(self, t) == [self EXCEPT !.table = Simple(t)]

complex_table(self, t, ps) == [self EXCEPT !.table = Complex(t, ps)]

select(self, s) == [self EXCEPT !.select = Append(@, s)]

select_many(self, ss) == [self EXCEPT !.select = @ \o ss]

group_by(self, g) == [self EXCEPT !.group_by = Append(@, g)]

group_by_many(self, gs) == [self EXCEPT !.group_by = @ \o gs]

join(self, j) == [self EXCEPT !.joins = Append(@, j)]

where_clause(self, w, v) ==
    [self EXCEPT !.where_clause = push(@, w, v, "And")]

or_where(self, w, v) ==
    [self EXCEPT !.where_clause = push(@, w, v, "Or")]

multi_where(self, w, vs) ==
    [self EXCEPT !.where_clause = push_multi(@, w, vs)]

\* as where_if, the closure invoked before the condition is looked at
where_if_eager(self, condition, cb) ==
    IF ~condition
    THEN [self |-> self, calls |-> 1]
    ELSE [self |-> [self EXCEPT !.where_clause = push(@, cb[1], cb[2], "And")],
          calls |-> 1]

\* cb is the pair the closure produces; calls counts its invocations
where_if(self, condition, cb) ==
    IF ~condition
    THEN [self |-> self, calls |-> 0]
    ELSE [self |-> [self EXCEPT !.where_clause = push(@, cb[1], cb[2], "And")],
          calls |-> 1]

\* as limit, the offset forgotten
limit_resetting_offset(self, n) ==
    [self EXCEPT !.limit = <<n>>, !.offset = <<>>]

limit(self, n) == [self EXCEPT !.limit = <<n>>]

offset(self, n) == [self EXCEPT !.offset = <<n>>]

\* as order_by, an order already set kept
order_by_keep_first(self, col, dir) ==
    IF self.order_by # <<>> THEN self
    ELSE [self EXCEPT !.order_by = <<<<col, dir>>>>]

order_by(self, col, dir) == [self EXCEPT !.order_by = <<<<col, dir>>>>]

(***************************************************************************)
(* ComposableQueryBuilder::parts                                           *)
(***************************************************************************)
select_str(self) ==
    <<"select ">>
    \o (IF self.select = <<>> THEN <<"*">> ELSE join_with(self.select, <<", ">>))
    \o <<" from ">>

joins_str(self) ==
    Flatten([i \in 1..Len(self.joins) |-> <<" ">> \o self.joins[i]])

group_by_str(self) ==
    IF self.group_by # <<>>
    THEN <<" group by ">> \o join_with(self.group_by, <<", ">>)
    ELSE <<>>

order_by_str(self) ==
    IF self.order_by # <<>>
    THEN <<" order by ">> \o self.order_by[1][1]
         \o <<" ", OrderDir_as_str(self.order_by[1][2]), " ">>
    ELSE <<>>

limit_parts(self) ==
    IF self.limit # <<>>
    THEN << <<" limit ">>, <<U64(self.limit[1])>> >>
    ELSE <<<<>>, <<>>>>

offset_parts(self) ==
    IF self.offset # <<>>
    THEN << <<" offset ">>, <<U64(self.offset[1])>> >>
    ELSE <<<<>>, <<>>>>

RECURSIVE parts(_)

\* as zip_table, the values of the children collected right to left
RECURSIVE zip_table_values_reversed(_, _, _)
zip_table_values_reversed(table_parts, children, k) ==
    IF k > Max(Len(table_parts), Len(children)) THEN <<<<>>, <<>>>>
    ELSE LET rest == zip_table_values_reversed(table_parts, children, k + 1)
             seg == IF k <= Len(table_parts) THEN table_parts[k] ELSE <<>>
             sub == IF k <= Len(children) THEN parts(children[k]) ELSE <<<<>>, <<>>>>
         IN <<seg \o sub[1] \o rest[1], rest[2] \o sub[2]>>

\* as zip_table, pairing with zip: what is left of the longer side is dropped
RECURSIVE zip_table_shortest(_, _, _)
zip_table_shortest(table_parts, children, k) ==
    IF k > Len(table_parts) \/ k > Len(children) THEN <<<<>>, <<>>>>
    ELSE LET rest == zip_table_shortest(table_parts, children, k + 1)
             sub == parts(children[k])
         IN <<table_parts[k] \o sub[1] \o rest[1], sub[2] \o rest[2]>>

\* table_parts.zip_longest(parts), from pair k on
RECURSIVE zip_table(_, _, _)
zip_table(table_parts, children, k) ==
    IF k > Max(Len(table_parts), Len(children)) THEN <<<<>>, <<>>>>
    ELSE LET rest == zip_table(table_parts, children, k + 1)
         IN CASE k <= Len(table_parts) /\ k <= Len(children) ->
                   LET sub == parts(children[k])
                   IN <<table_parts[k] \o sub[1] \o rest[1], sub[2] \o rest[2]>>
              [] k <= Len(table_parts) /\ k > Len(children) ->
                   <<table_parts[k] \o rest[1], rest[2]>>
              [] OTHER ->
                   LET sub == parts(children[k])
                   IN <<sub[1] \o rest[1], sub[2] \o rest[2]>>

table_str(t) ==
    IF t.kind = "Simple" THEN <<t.s, <<>>>>
    ELSE zip_table(split(t.s), t.parts, 1)

parts(self) ==
    LET tbl == table_str(self.table)
        whr == WhereClauses_parts(self.where_clause)
        lim == limit_parts(self)
        off == offset_parts(self)
    IN << select_str(self) \o tbl[1] \o joins_str(self) \o whr[1]
            \o group_by_str(self) \o order_by_str(self) \o lim[1] \o off[1],
          tbl[2] \o whr[2] \o lim[2] \o off[2] >>

(***************************************************************************)
(* ComposableQueryBuilder::into_builder                                    *)
(***************************************************************************)
\* sqlx QueryBuilder: the statement text, the bound arguments, and the
\* SQLValues handed to push_bind so far
QueryBuilder_new == [sql |-> <<>>, arguments |-> <<>>, bound |-> <<>>]

QueryBuilder_push(q, part) == [q EXCEPT !.sql = @ \o part]

\* SQLValue::push_bind: binds the value (a U64 as i64; the modelled values
\* are below 2^63, where the cast keeps the number) and writes "$n", n the
\* number of arguments bound so far
SQLValue_push_bind(v, q) ==
    LET arg == IF v.tag = "U64" THEN [tag |-> "I64", v |-> v.v] ELSE v
        n == Len(q.arguments) + 1
    IN [sql |-> Append(q.sql, "$" \o ToString(n)),
        arguments |-> Append(q.arguments, arg),
        bound |-> Append(q.bound, v)]

\* as zip_bind, pairing with zip: the values left over once the segments are
\* exhausted are not bound
RECURSIVE zip_bind_shortest(_, _, _, _)
zip_bind_shortest(segs, v, k, q) ==
    IF k > Len(segs) THEN q
    ELSE IF k <= Len(v)
         THEN zip_bind_shortest(segs, v, k + 1,
                  SQLValue_push_bind(v[k], QueryBuilder_push(q, segs[k])))
         ELSE zip_bind_shortest(segs, v, k + 1, QueryBuilder_push(q, segs[k]))

\* parts.zip_longest(v), from pair k on
RECURSIVE zip_bind(_, _, _, _)
zip_bind(segs, v, k, q) ==
    IF k > Max(Len(segs), Len(v)) THEN q
    ELSE CASE k <= Len(segs) /\ k <= Len(v) ->
                zip_bind(segs, v, k + 1,
                         SQLValue_push_bind(v[k], QueryBuilder_push(q, segs[k])))
           [] k <= Len(segs) /\ k > Len(v) ->
                zip_bind(segs, v, k + 1, QueryBuilder_push(q, segs[k]))
           [] OTHER ->
                zip_bind(segs, v, k + 1, SQLValue_push_bind(v[k], q))

into_builder(self) ==
    LET pv == parts(self)
    IN zip_bind(split(pv[1]), pv[2], 1, QueryBuilder_new)

(***************************************************************************)
(* The caller: inputs of the configuration calls                           *)
(***************************************************************************)
DateTime(n) == [tag |-> "DateTime", v |-> n]

Tables == {<<"users">>}

ComplexTables ==
    {<<"u">>, <<"(", Q, ") as u">>, <<"((", Q, ") union (", Q, ")) t">>}

Columns == {<<"id">>, <<"email">>}

ManyColumns == {<<<<"cost">>, <<"sales">>>>}

JoinFragments == {<<"left join t on a = b">>}

Wheres == {<<<<"id = ", Q>>, I32(1)>>, <<<<"status_id = ", Q>>, I32(2)>>}

MultiWheres ==
    {<<<<"(a > ", Q, " and a < ", Q, ")">>, <<I32(10), I32(100)>>>>,
     <<<<"b > ", Q>>, <<I32(7)>>>>}

Producers == {<<<<"date >= ", Q>>, DateTime(3)>>}

Limits == {5, 10}

Offsets == {10, 20}

OrderDirs == {"Asc", "Desc"}

(***************************************************************************)
(* State machine                                                           *)
(***************************************************************************)
NoResult == <<<<>>, <<>>>>

\* a configuration call: last is the most recent one, pushes the calls that
\* pushed onto the condition set of the builder under construction, in order
Op(name, args) == [op |-> name, condition |-> TRUE, args |-> args]

\* log.calls is every configuration call made on the builder under
\* construction, in order; it is kept only where log.on is set
Logged(c) == IF log.on THEN [log EXCEPT !.calls = Append(@, c)] ELSE log

InitWith(n) ==
    /\ qb = new
    /\ pool = <<>>
    /\ budget = n
    /\ pc = "config"
    /\ last = Op("new", <<>>)
    /\ pushes = <<>>
    /\ log = [on |-> FALSE, calls |-> <<>>]
    /\ cb_calls = 0
    /\ out = NoResult
    /\ query = QueryBuilder_new

\* one configuration call on the builder under construction
Call(c, self) ==
    /\ pc = "config"
    /\ budget > 0
    /\ budget' = budget - 1
    /\ qb' = self
    /\ last' = c
    /\ pushes' = IF c.op \in {"where_clause", "or_where", "multi_where"}
                  THEN Append(pushes, c)
                  ELSE pushes
    /\ log' = Logged(c)
    /\ cb_calls' = 0
    /\ UNCHANGED <<pool, pc, out, query>>

Table == \E t \in Tables : Call(Op("table", <<t>>), table(qb, t))

\* the caller nests the builders it has finished so far
ComplexTable ==
    \E t \in ComplexTables :
        /\ pc = "config"
        /\ budget > 0
        /\ budget' = budget - 1
        /\ qb' = complex_table(qb, t, pool)
        /\ pool' = <<>>
        /\ last' = Op("complex_table", <<t>>)
        /\ log' = Logged(Op("complex_table", <<t, pool>>))
        /\ cb_calls' = 0
        /\ UNCHANGED <<pushes, pc, out, query>>

Select == \E s \in Columns : Call(Op("select", <<s>>), select(qb, s))

SelectMany ==
    \E ss \in ManyColumns : Call(Op("select_many", <<ss>>), select_many(qb, ss))

GroupBy == \E g \in Columns : Call(Op("group_by", <<g>>), group_by(qb, g))

GroupByMany ==
    \E gs \in ManyColumns :
        Call(Op("group_by_many", <<gs>>), group_by_many(qb, gs))

Join == \E j \in JoinFragments : Call(Op("join", <<j>>), join(qb, j))

WhereClause ==
    \E w \in Wheres : Call(Op("where_clause", w), where_clause(qb, w[1], w[2]))

OrWhere ==
    \E w \in Wheres : Call(Op("or_where", w), or_where(qb, w[1], w[2]))

MultiWhere ==
    \E m \in MultiWheres : Call(Op("multi_where", m), multi_where(qb, m[1], m[2]))

WhereIf ==
    \E condition \in BOOLEAN, cb \in Producers :
        LET r == where_if(qb, condition, cb)
        IN /\ pc = "config"
           /\ budget > 0
           /\ budget' = budget - 1
           /\ qb' = r.self
           /\ cb_calls' = r.calls
           /\ last' = [op |-> "where_if", condition |-> condition, args |-> cb]
           /\ pushes' = IF condition THEN Append(pushes, last') ELSE pushes
           /\ log' = Logged(last')
           /\ UNCHANGED <<pool, pc, out, query>>

Limit == \E n \in Limits : Call(Op("limit", <<n>>), limit(qb, n))

Offset == \E n \in Offsets : Call(Op("offset", <<n>>), offset(qb, n))

OrderBy ==
    \E col \in Columns, dir \in OrderDirs :
        Call(Op("order_by", <<col, dir>>), order_by(qb, col, dir))

\* the caller keeps the finished builder to nest it, and starts a new one
Stash ==
    /\ pc = "config"
    /\ budget > 0
    /\ budget' = budget - 1
    /\ pool' = Append(pool, qb)
    /\ qb' = new
    /\ last' = Op("new", <<>>)
    /\ pushes' = <<>>
    /\ log' = [log EXCEPT !.calls = <<>>]
    /\ cb_calls' = 0
    /\ UNCHANGED <<pc, out, query>>

\* terminal call: parts consumes the builder (qb keeps the consumed value)
Parts ==
    /\ pc = "config"
    /\ pc' = "parts"
    /\ out' = parts(qb)
    /\ UNCHANGED <<qb, pool, budget, last, pushes, log, cb_calls, query>>

\* terminal call: into_builder consumes the builder
IntoBuilder ==
    /\ pc = "config"
    /\ pc' = "into_builder"
    /\ query' = into_builder(qb)
    /\ UNCHANGED <<qb, pool, budget, last, pushes, log, cb_calls, out>>

\* WhereClauses::parts on the builder's condition set alone
WhereClausesParts ==
    /\ pc = "config"
    /\ pc' = "where_parts"
    /\ out' = WhereClauses_parts(qb.where_clause)
    /\ UNCHANGED <<qb, pool, budget, last, pushes, log, cb_calls, query>>

Init == InitWith(MaxCalls)

Next ==
    \/ Table
    \/ ComplexTable
    \/ Select
    \/ SelectMany
    \/ GroupBy
    \/ GroupByMany
    \/ Join
    \/ WhereClause
    \/ OrWhere
    \/ MultiWhere
    \/ WhereIf
    \/ Limit
    \/ Offset
    \/ OrderBy
    \/ Stash
    \/ Parts
    \/ IntoBuilder

Spec == Init /\ [][Next]_vars

\* the condition set alone
InitWhere == InitWith(MaxWhereCalls)

NextWhere ==
    \/ WhereClause
    \/ OrWhere
    \/ MultiWhere
    \/ WhereIf
    \/ WhereClausesParts

SpecWhere == InitWhere /\ [][NextWhere]_vars

\* nested composite tables
InitTable == InitWith(MaxTableCalls)

NextTable ==
    \/ ComplexTable
    \/ WhereClause
    \/ Limit
    \/ Stash
    \/ Parts

SpecTable == InitTable /\ [][NextTable]_vars

\* the configuration calls, with the log of the calls kept
InitLogged ==
    /\ qb = new
    /\ pool = <<>>
    /\ budget = MaxLoggedCalls
    /\ pc = "config"
    /\ last = Op("new", <<>>)
    /\ pushes = <<>>
    /\ log = [on |-> TRUE, calls |-> <<>>]
    /\ cb_calls = 0
    /\ out = NoResult
    /\ query = QueryBuilder_new

NextLogged ==
    \/ Table
    \/ ComplexTable
    \/ Select
    \/ SelectMany
    \/ GroupBy
    \/ GroupByMany
    \/ Join
    \/ WhereClause
    \/ OrWhere
    \/ MultiWhere
    \/ WhereIf
    \/ Limit
    \/ Offset
    \/ OrderBy
    \/ Stash
    \/ Parts

SpecLogged == InitLogged /\ [][NextLogged]_vars

(***************************************************************************)
(* Properties                                                              *)
(***************************************************************************)
\* the positional tokens $1 .. $n
Positional(n) == [k \in 1..n |-> "$" \o ToString(k)]

\* the positional tokens a statement text contains, in order
TokensOf(sql) ==
    SelectSeq(sql, LAMBDA a : a \in {"$" \o ToString(k) : k \in 1..Len(sql)})

\* C1: whatever the builder, when parts yields V values, into_builder writes
\* exactly the tokens $1, $2, ..., $V in that order, and push_bind is invoked
\* V times, the k-th time with the k-th value of the list.
C1_RenderBindsEveryValue ==
    pc = "into_builder" =>
        LET v == parts(qb)[2]
        IN /\ TokensOf(query.sql) = Positional(Len(v))
           /\ query.bound = v
           /\ Len(query.arguments) = Len(v)

\* into_builder has run on a builder for which parts yields three values and
\* a template of two segments, so that the last value has no segment
C1_Witness ==
    /\ pc = "into_builder"
    /\ Len(parts(qb)[2]) = 3
    /\ Markers(parts(qb)[1]) = 1
    /\ Len(query.bound) = 3

\* a builder tree whose templates carry the markers their values and
\* children need, and whose other fragments carry none
RECURSIVE WellFormed(_)
WellFormed(b) ==
    /\ \A i \in 1..Len(b.where_clause.clauses) :
           Markers(b.where_clause.clauses[i][1]) = 1
    /\ \A i \in 1..Len(b.where_clause.multi_clauses) :
           Markers(b.where_clause.multi_clauses[i][1])
               = Len(b.where_clause.multi_clauses[i][2])
    /\ \A i \in 1..Len(b.select) : Markers(b.select[i]) = 0
    /\ \A i \in 1..Len(b.joins) : Markers(b.joins[i]) = 0
    /\ \A i \in 1..Len(b.group_by) : Markers(b.group_by[i]) = 0
    /\ b.order_by # <<>> => Markers(b.order_by[1][1]) = 0
    /\ IF b.table.kind = "Simple"
       THEN Markers(b.table.s) = 0
       ELSE /\ Markers(b.table.s) = Len(b.table.parts)
            /\ \A k \in 1..Len(b.table.parts) : WellFormed(b.table.parts[k])

\* C2: for a well-formed builder tree, the template parts returns has exactly
\* as many markers as the value list has values.
C2_MarkersMatchValues ==
    pc = "parts" /\ WellFormed(qb) => Markers(out[1]) = Len(out[2])

\* the 1-based position of the limit in the value list parts returns: the
\* last value, or the last but one when an offset is set
LimitPosition(b) ==
    Len(parts(b)[2]) - (IF b.offset # <<>> THEN 1 ELSE 0)

\* C3: with limit n set, the template has " limit " followed by a marker, the
\* value list has U64(n) at the limit's position N, and the rendered
\* statement has " limit " followed by $N.
C3_LimitMarkerAndToken ==
    pc = "into_builder" /\ qb.limit # <<>> =>
        LET pv == parts(qb)
            N == LimitPosition(qb)
        IN /\ \E i \in 1..(Len(pv[1]) - 1) :
                  pv[1][i] = " limit " /\ pv[1][i + 1] = Q
           /\ pv[2][N] = U64(qb.limit[1])
           /\ \E i \in 1..(Len(query.sql) - 1) :
                  /\ query.sql[i] = " limit "
                  /\ query.sql[i + 1] = "$" \o ToString(N)

\* C4: with offset m set, the template ends with " offset " and a marker, m is
\* the last value, and the rendered statement ends with " offset " and $V, V
\* the number of values.
C4_OffsetMarkerAndToken ==
    pc = "into_builder" /\ qb.offset # <<>> =>
        LET pv == parts(qb)
            V == Len(pv[2])
            n == Len(query.sql)
        IN /\ Len(pv[1]) >= 2
           /\ pv[1][Len(pv[1]) - 1] = " offset "
           /\ pv[1][Len(pv[1])] = Q
           /\ pv[2][V] = U64(qb.offset[1])
           /\ n >= 2
           /\ query.sql[n - 1] = " offset "
           /\ query.sql[n] = "$" \o ToString(V)

\* the number of atoms of " where " and of the first i - 1 single-value
\* templates, each with the three atoms of its separator
RECURSIVE StartOf(_, _)
StartOf(c, i) ==
    IF i = 1 THEN 1 ELSE StartOf(c, i - 1) + Len(c[i - 1][1]) + 3

\* the single-value pushes among the calls, as <<template, value, joiner>>
RECURSIVE SinglePushes(_)
SinglePushes(ps) ==
    IF ps = <<>> THEN <<>>
    ELSE LET c == Head(ps)
         IN (IF c.op = "multi_where" THEN <<>>
             ELSE <<<<c.args[1], c.args[2],
                      IF c.op = "or_where" THEN "or" ELSE "and">>>>)
            \o SinglePushes(Tail(ps))

\* the multi-value pushes among the calls, as <<template, values>>
RECURSIVE MultiPushes(_)
MultiPushes(ps) ==
    IF ps = <<>> THEN <<>>
    ELSE (IF Head(ps).op = "multi_where" THEN <<Head(ps).args>> ELSE <<>>)
         \o MultiPushes(Tail(ps))

\* C5: with single-value conditions c_1..c_n only (where_clause pushes the
\* joiner AND, or_where the joiner OR), the text is " where ", then the
\* templates in insertion order, c_i and c_(i+1) separated by " ", the joiner
\* of c_i, " "; nothing follows c_n; the values are in insertion order.
C5_JoinerOfEarlierCondition ==
    pc = "where_parts" /\ pushes # <<>> /\ MultiPushes(pushes) = <<>> =>
        LET c == SinglePushes(pushes)
            n == Len(c)
        IN /\ out[1][1] = " where "
           /\ Len(out[1]) = StartOf(c, n) + Len(c[n][1])
           /\ \A i \in 1..n :
                  SubSeq(out[1], StartOf(c, i) + 1, StartOf(c, i) + Len(c[i][1]))
                      = c[i][1]
           /\ \A i \in 1..(n - 1) :
                  SubSeq(out[1], StartOf(c, i) + Len(c[i][1]) + 1,
                         StartOf(c, i + 1))
                      = <<" ", c[i][3], " ">>
           /\ out[2] = [i \in 1..n |-> c[i][2]]

\* parts has run on three single-value conditions pushed by or_where,
\* where_clause, or_where in that order
C5_Witness ==
    /\ pc = "where_parts"
    /\ Len(pushes) = 3
    /\ pushes[1].op = "or_where"
    /\ pushes[2].op = "where_clause"
    /\ pushes[3].op = "or_where"
    /\ Len(out[2]) = 3

\* C6: the multi-value templates come after all single-value templates, in
\* insertion order, each separated by " and " from the condition text before
\* it, be that a multi-value template or the last single-value template.
C6_MultiSeparatedByAnd ==
    pc = "where_parts" /\ MultiPushes(pushes) # <<>> =>
        LET c == SinglePushes(pushes)
            m == MultiPushes(pushes)
            singles == SubSeq(out[1], 1, IF c = <<>> THEN 1
                                         ELSE StartOf(c, Len(c)) + Len(c[Len(c)][1]))
        IN out[1] = singles
                    \o Flatten([i \in 1..Len(m) |->
                           (IF i > 1 \/ c # <<>> THEN <<" ", "and", " ">> ELSE <<>>)
                           \o m[i][1]])

\* C7: whatever the interleaving of single-value and multi-value pushes, the
\* value list is the single-value pushes' values in call order followed by
\* the multi-value pushes' values, flattened, in call order.
C7_ValuesSinglesThenMultis ==
    pc = "where_parts" =>
        LET c == SinglePushes(pushes)
            m == MultiPushes(pushes)
        IN out[2] = [i \in 1..Len(c) |-> c[i][2]]
                    \o Flatten([i \in 1..Len(m) |-> m[i][2]])

\* parts has run after a multi-value push made before two single-value
\* pushes of different values, and another multi-value push after them
C7_Witness ==
    /\ pc = "where_parts"
    /\ Len(pushes) = 4
    /\ pushes[1].op = "multi_where"
    /\ pushes[2].op \in {"where_clause", "or_where", "where_if"}
    /\ pushes[3].op \in {"where_clause", "or_where", "where_if"}
    /\ pushes[2].args[2] # pushes[3].args[2]
    /\ pushes[4].op = "multi_where"
    /\ pushes[4].args # pushes[1].args
    /\ Len(out[2]) = 5

\* template t with its markers replaced, left to right, by the assembled
\* texts of the children; a marker with no child left is dropped
RECURSIVE Substitute(_, _)
Substitute(t, children) ==
    IF t = <<>> THEN <<>>
    ELSE IF Head(t) # Q THEN <<Head(t)>> \o Substitute(Tail(t), children)
    ELSE IF children = <<>> THEN Substitute(Tail(t), children)
    ELSE parts(Head(children))[1] \o Substitute(Tail(t), Tail(children))

\* the values of a builder tree, depth-first and left to right: the children's
\* values, then the builder's own condition values, its limit, its offset
RECURSIVE DepthFirstValues(_)
DepthFirstValues(b) ==
    Flatten([k \in 1..Len(b.table.parts) |-> DepthFirstValues(b.table.parts[k])])
    \o [i \in 1..Len(b.where_clause.clauses) |-> b.where_clause.clauses[i][2]]
    \o Flatten([i \in 1..Len(b.where_clause.multi_clauses) |->
                    b.where_clause.multi_clauses[i][2]])
    \o (IF b.limit # <<>> THEN <<U64(b.limit[1])>> ELSE <<>>)
    \o (IF b.offset # <<>> THEN <<U64(b.offset[1])>> ELSE <<>>)

\* what follows the table expression in the template of builder b
AfterTable(b) ==
    joins_str(b) \o WhereClauses_parts(b.where_clause)[1] \o group_by_str(b)
    \o order_by_str(b) \o limit_parts(b)[1] \o offset_parts(b)[1]

\* C8: for a composite table whose template has as many markers as there are
\* children, the text after " from " is the template with the k-th marker
\* replaced by the assembled text of the k-th child, nothing inserted, and the
\* values are those of the tree depth-first, left to right, each builder's
\* children before its own condition values and its limit and offset.
C8_CompositeSplicesChildren ==
    pc = "parts" /\ qb.table.kind = "Complex"
                 /\ Markers(qb.table.s) = Len(qb.table.parts) =>
        /\ out[1] = select_str(qb) \o Substitute(qb.table.s, qb.table.parts)
                    \o AfterTable(qb)
        /\ out[2] = DepthFirstValues(qb)

\* parts has run on a builder with two children in a two-marker template,
\* the first child itself a composite with a child that has a value, the
\* second child with another value
C8_Witness ==
    /\ pc = "parts"
    /\ qb.table.kind = "Complex"
    /\ Markers(qb.table.s) = 2
    /\ Len(qb.table.parts) = 2
    /\ qb.table.parts[1].table.kind = "Complex"
    /\ Len(qb.table.parts[1].table.parts) = 1
    /\ Markers(qb.table.parts[1].table.s) = 1
    /\ Len(parts(qb.table.parts[1].table.parts[1])[2]) = 1
    /\ Len(parts(qb.table.parts[2])[2]) = 1
    /\ Len(out[2]) = 2
    /\ out[2][1] # out[2][2]

\* C9: when the numbers of markers and children differ, parts still returns:
\* the markers that have a child are replaced by the child's text, the
\* markers beyond the last child are dropped with the text around them kept,
\* the children beyond the last marker are appended after the template one
\* after the other with nothing between them, and every child's values are
\* in the value list, in order.
C9_LenientOverflow ==
    pc = "parts" /\ qb.table.kind = "Complex"
                 /\ Markers(qb.table.s) # Len(qb.table.parts) =>
        LET n == Markers(qb.table.s)
            c == qb.table.parts
            paired == SubSeq(c, 1, IF Len(c) < n THEN Len(c) ELSE n)
            surplus == SubSeq(c, n + 1, Len(c))
        IN /\ out[1] = select_str(qb) \o Substitute(qb.table.s, paired)
                       \o Flatten([k \in 1..Len(surplus) |-> parts(surplus[k])[1]])
                       \o AfterTable(qb)
           /\ out[2] = DepthFirstValues(qb)

\* parts has run on a composite whose template has no marker and two
\* children, each with a value
C9_Witness ==
    /\ pc = "parts"
    /\ qb.table.kind = "Complex"
    /\ Markers(qb.table.s) = 0
    /\ Len(qb.table.parts) = 2
    /\ \A k \in 1..2 : Len(parts(qb.table.parts[k])[2]) >= 1
    /\ Len(out[2]) >= 2

\* C10: a where_if call with a false condition does not invoke the producer
\* and leaves every field of the builder as it was; with a true condition it
\* invokes the producer once and appends one AND-joined single-value
\* condition made of the produced pair, as where_clause does.
C10_WhereIfLazy ==
    [][pc = "config" /\ budget' = budget - 1 /\ last'.op = "where_if" =>
           IF ~last'.condition
           THEN cb_calls' = 0 /\ qb' = qb
           ELSE /\ cb_calls' = 1
                /\ qb' = where_clause(qb, last'.args[1], last'.args[2])
                /\ qb'.where_clause.clauses
                       = qb.where_clause.clauses
                         \o <<<<last'.args[1], last'.args[2], "And">>>>
                /\ \A f \in DOMAIN qb \ {"where_clause"} : qb'[f] = qb[f]
                /\ qb'.where_clause.multi_clauses = qb.where_clause.multi_clauses]_vars

\* where_if was called with a false condition on a builder that has a
\* condition and a limit, and the producer was not invoked
C10_Witness ==
    /\ last.op = "where_if"
    /\ ~last.condition
    /\ cb_calls = 0
    /\ qb.where_clause.clauses # <<>>
    /\ qb.limit # <<>>

\* the calls of the log whose operation is one of ops, in call order
CallsOf(ops) == SelectSeq(log.calls, LAMBDA c : c.op \in ops)

\* the last call of the log whose operation is one of ops: <<>> or <<call>>
LastCallOf(ops) ==
    IF CallsOf(ops) = <<>> THEN <<>>
    ELSE <<CallsOf(ops)[Len(CallsOf(ops))]>>

\* the columns of the logged calls op (one column) and many (a list)
ColumnsOf(op, many) ==
    LET cs == CallsOf({op, many})
    IN Flatten([i \in 1..Len(cs) |->
                    IF cs[i].op = op THEN <<cs[i].args[1]>> ELSE cs[i].args[1]])

\* the indices of atom a in text t
IndicesOf(a, t) == {i \in 1..Len(t) : t[i] = a}

\* C12: with an order set, the template has " order by ", the column, " ",
\* "asc" for Asc or "desc" for Desc, " " of the last order_by call, once,
\* right after the group-by clause when there is one, and followed by nothing
\* but the limit and offset clauses.
C12_OrderByClause ==
    pc = "parts" /\ CallsOf({"order_by"}) # <<>> =>
        LET o == LastCallOf({"order_by"})[1]
            clause == <<" order by ">> \o o.args[1]
                      \o <<" ", IF o.args[2] = "Asc" THEN "asc" ELSE "desc", " ">>
            at == IndicesOf(" order by ", out[1])
            groups == ColumnsOf("group_by", "group_by_many")
            group_clause == <<" group by ">> \o join_with(groups, <<", ">>)
        IN /\ at # {}
           /\ qb.table.parts = <<>> => Cardinality(at) = 1
           /\ LET i == CHOOSE j \in at : \A k \in at : k <= j
                  before == SubSeq(out[1], 1, i - 1)
                  after == SubSeq(out[1], i + Len(clause), Len(out[1]))
              IN /\ SubSeq(out[1], i, i + Len(clause) - 1) = clause
                 /\ \A k \in 1..Len(after) :
                        after[k] \in {" limit ", " offset ", Q}
                 /\ CallsOf({"limit"}) # <<>> => IndicesOf(" limit ", after) # {}
                 /\ CallsOf({"offset"}) # <<>> => IndicesOf(" offset ", after) # {}
                 /\ groups # <<>> =>
                        /\ Len(before) >= Len(group_clause)
                        /\ SubSeq(before, Len(before) - Len(group_clause) + 1,
                                  Len(before)) = group_clause

\* parts has run after two order_by calls with different arguments and a
\* limit call
C12_Witness ==
    /\ pc = "parts"
    /\ Len(CallsOf({"order_by"})) = 2
    /\ CallsOf({"order_by"})[1].args # CallsOf({"order_by"})[2].args
    /\ CallsOf({"limit"}) # <<>>
    /\ IndicesOf(" order by ", out[1]) # {}

\* the builder the logged calls describe, kind by kind: the last table or
\* complex_table call, the select, join, group-by and condition calls in
\* their own call orders, the last limit, offset and order_by calls
Described ==
    LET t == LastCallOf({"table", "complex_table"})
        w == CallsOf({"where_clause", "or_where", "where_if"})
        pushed == SelectSeq(w, LAMBDA c : c.condition)
        m == CallsOf({"multi_where"})
        j == CallsOf({"join"})
        l == LastCallOf({"limit"})
        f == LastCallOf({"offset"})
        o == LastCallOf({"order_by"})
    IN [table |-> IF t = <<>> THEN [kind |-> "Simple", s |-> <<>>, parts |-> <<>>]
                  ELSE IF t[1].op = "table"
                       THEN [kind |-> "Simple", s |-> t[1].args[1], parts |-> <<>>]
                       ELSE [kind |-> "Complex", s |-> t[1].args[1],
                             parts |-> t[1].args[2]],
        select |-> ColumnsOf("select", "select_many"),
        group_by |-> ColumnsOf("group_by", "group_by_many"),
        joins |-> [i \in 1..Len(j) |-> j[i].args[1]],
        where_clause |->
            [clauses |-> [i \in 1..Len(pushed) |->
                             <<pushed[i].args[1], pushed[i].args[2],
                               IF pushed[i].op = "or_where" THEN "Or" ELSE "And">>],
             multi_clauses |-> [i \in 1..Len(m) |-> m[i].args]],
        limit |-> IF l = <<>> THEN <<>> ELSE l[1].args,
        offset |-> IF f = <<>> THEN <<>> ELSE f[1].args,
        order_by |-> IF o = <<>> THEN <<>> ELSE <<o[1].args>>]

\* the place of a clause in the statement; 0 for an atom that starts no clause
ClauseRank(a) ==
    CASE a = "select " -> 1
      [] a = " from " -> 2
      [] <<a>> \in JoinFragments -> 3
      [] a = " where " -> 4
      [] a = " group by " -> 5
      [] a = " order by " -> 6
      [] a = " limit " -> 7
      [] a = " offset " -> 8
      [] OTHER -> 0

\* C13: the builder, and so the template and values parts returns, depend
\* only on the last table/complex_table call, the call orders of the select,
\* join, group-by and condition calls each taken alone, and the last limit,
\* offset and order_by calls; and the clauses of a builder lie in the order
\* select, from, joins, where, group by, order by, limit, offset.
C13_CallsOfDifferentKindsCommute ==
    pc = "parts" =>
        /\ qb = Described
        /\ out = parts(Described)
        /\ qb.table.parts = <<>> =>
               LET starts == SelectSeq(out[1], LAMBDA a : ClauseRank(a) > 0)
               IN /\ \A i \in 1..(Len(starts) - 1) :
                         /\ ClauseRank(starts[i]) <= ClauseRank(starts[i + 1])
                         /\ ClauseRank(starts[i]) = ClauseRank(starts[i + 1])
                                => ClauseRank(starts[i]) = 3
                  /\ {ClauseRank(starts[i]) : i \in 1..Len(starts)}
                         = {1, 2}
                           \cup (IF CallsOf({"join"}) # <<>> THEN {3} ELSE {})
                           \cup (IF qb.where_clause # WhereClauses_new THEN {4} ELSE {})
                           \cup (IF qb.group_by # <<>> THEN {5} ELSE {})
                           \cup (IF CallsOf({"order_by"}) # <<>> THEN {6} ELSE {})
                           \cup (IF CallsOf({"limit"}) # <<>> THEN {7} ELSE {})
                           \cup (IF CallsOf({"offset"}) # <<>> THEN {8} ELSE {})

\* parts has run after limit, offset and limit again with another number,
\* in that order
C13_Witness ==
    /\ pc = "parts"
    /\ Len(log.calls) = 3
    /\ log.calls[1].op = "limit"
    /\ log.calls[2].op = "offset"
    /\ log.calls[3].op = "limit"
    /\ log.calls[1].args # log.calls[3].args
    /\ Len(out[2]) = 2

====
